---- MODULE Spec2Model ----
(***************************************************************************)
(* Model of localhttps/cert/cert.py: the Certificate handle, its derived   *)
(* values (paths, subject), and the exists / create / delete coroutines    *)
(* acting on one storage directory, an injected command executor and the   *)
(* authority's files.                                                      *)
(*                                                                         *)
(* Every await of the source is one step.  asyncio.gather is modelled with *)
(* its documented behaviour: the branches run in any order, the first      *)
(* exception is raised to the awaiting coroutine at once, and the other    *)
(* branches are not cancelled: they keep running as orphans.               *)
(*                                                                         *)
(* A filesystem call takes a parameter ok: whether the operating system    *)
(* let it succeed (FALSE: permission denied, disk full, ...).  An external *)
(* tool is a black box: a successful run has written its output file, a    *)
(* failed run may or may not have left one behind.                         *)
(***************************************************************************)
EXTENDS Integers, Sequences, FiniteSets, TLC

\* ------------------------------------------------------------------ bounds
\* labels in a domain drawn for the derived-value specification
MaxLabels == 3

\* --------------------------------------------------------------- constants
Names == {"site", "peer"}
Exts == {"key", "csr", "crt", "conf"}
Foreign == {"notes.txt"}
Labels == {"example", "test"}
RootPath == "certs"
Cwd == "/home/dev"
AuthorityDir == "ca"
Mode644 == 420
NewFileModes == {384, 420}

\* ------------------------------------------------- derived values (pure)
\* faulty variant: the file names do not depend on the storage name
ArtifactName_shared(name, ext) == "site." \o ext

\* root_path / f'{name}.{ext}'
ArtifactName(name, ext) == name \o "." \o ext

ArtifactPath(name, ext) == RootPath \o "/" \o ArtifactName(name, ext)

key_path(name) == ArtifactPath(name, "key")

csr_path(name) == ArtifactPath(name, "csr")

crt_path(name) == ArtifactPath(name, "crt")

conf_path(name) == ArtifactPath(name, "conf")

\* AsyncPath.resolve() of a relative path: made absolute against the cwd
Resolve(path) == Cwd \o "/" \o path

\* the authority's three paths (pem_path, key_path, srl_path)
AuthorityPath(kind) == AuthorityDir \o "/rootCA." \o kind

common_name(domain) == domain

email(domain) == domain \o "@localhttps"

subject_parts(domain) ==
    << <<"C", "">>,
       <<"ST", "">>,
       <<"O", "">>,
       <<"localityName", "">>,
       <<"commonName", common_name(domain)>>,
       <<"organizationalUnitName", "">>,
       <<"emailAddress", email(domain)>> >>

\* ''.join(f'/{key}={value}' for (key, value) in parts)
RECURSIVE JoinParts(_)
JoinParts(parts) ==
    IF parts = << >> THEN ""
    ELSE "/" \o parts[1][1] \o "=" \o parts[1][2] \o JoinParts(Tail(parts))

\* faulty variant: the trailing separator is forgotten
subject_no_trailing(domain) == JoinParts(subject_parts(domain))

subject(domain) == JoinParts(subject_parts(domain)) \o "/"

\* the f-string of lines 72-98, split at its newlines
ConfTemplate(dns1, dns2) ==
    << "",
       "[req]",
       "distinguished_name = req_distinguished_name",
       "req_extensions = v3_req",
       "",
       "[req_distinguished_name]",
       "countryName = Country Name (2 letter code)",
       "countryName_default = US",
       "stateOrProvinceName = State or Province Name (full name)",
       "stateOrProvinceName_default = MN",
       "localityName = Locality Name (eg, city)",
       "localityName_default = Minneapolis",
       "organizationalUnitName\t= Organizational Unit Name (eg, section)",
       "organizationalUnitName_default\t= Domain Control Validated",
       "commonName = Internet Widgits Ltd",
       "commonName_max\t= 64",
       "",
       "[ v3_req ]",
       "# Extensions to add to a certificate request",
       "basicConstraints = CA:FALSE",
       "keyUsage = nonRepudiation, digitalSignature, keyEncipherment",
       "subjectAltName = @alt_names",
       "",
       "[alt_names]",
       "DNS.1 = " \o dns1,
       "DNS.2 = " \o dns2,
       "" >>

\* str.strip() on a text held as lines: the empty lines at both ends go
RECURSIVE Strip(_)
Strip(lines) ==
    IF lines = << >> THEN lines
    ELSE IF Head(lines) = "" THEN Strip(Tail(lines))
    ELSE IF lines[Len(lines)] = "" THEN Strip(SubSeq(lines, 1, Len(lines) - 1))
    ELSE lines

\* faulty variant: the wildcard entry repeats the bare domain
ConfText_nowildcard(domain) == Strip(ConfTemplate(domain, domain))

\* the text _build_certificate_conf hands to write_text
ConfText(domain) == Strip(ConfTemplate(domain, "*." \o domain))

\* the domains the derived-value specification draws from: 1..MaxLabels
\* labels joined by dots
RECURSIVE JoinDots(_)
JoinDots(labels) ==
    IF Len(labels) = 1 THEN labels[1]
    ELSE labels[1] \o "." \o JoinDots(Tail(labels))

Domains ==
    { JoinDots(s) : s \in UNION { [1..n -> Labels] : n \in 1..MaxLabels } }

\* the domain each handle of the lifecycle specification was constructed with
DomainOf(name) == IF name = "site" THEN "example.test" ELSE "peer.test"

\* ------------------------------------------------------------------- state
VARIABLES
    dir,        \* the storage root directory exists
    disk,       \* entry name -> [present, mode, fresh]; fresh: written by the
                \* latest create call of the handle that owns it
    ca,         \* the authority's files: kind -> exists
    op,         \* handle -> top-level call in progress
    pc,         \* handle -> position in that call
    branches,   \* handle -> gather branches not yet finished
    orphans,    \* branches whose gather has already raised
    seen,       \* handle -> results of the exists() probes so far
    serialFlag, \* handle -> the decision of line 138
    umask,      \* the mode a newly created file gets in this run
    ret,        \* handle -> outcome of the last completed call
    prev,       \* handle -> outcome of the call right before the last one
    pre,        \* handle -> the filesystem when the last call started
    cmdlog,     \* handle -> external-tool invocations of the last call
    chlog,      \* handle -> chmods applied by the last call
    probe,      \* derived-value specification: the domain under examination
    view,       \* derived-value specification: property -> value read
    conftext    \* derived-value specification: the configuration text built

fsvars == <<dir, disk, ca, umask>>
procvars == <<op, pc, branches, orphans, seen, serialFlag>>
ghostvars == <<ret, prev, pre, cmdlog, chlog>>
derivevars == <<probe, view, conftext>>
vars == <<dir, disk, ca, umask, op, pc, branches, orphans, seen, serialFlag,
          ret, prev, pre, cmdlog, chlog, probe, view, conftext>>

Entries == { ArtifactName(n, e) : n \in Names, e \in Exts } \cup Foreign

Artifacts(c) == { ArtifactName(c, e) : e \in Exts }

File(mode, fresh) == [present |-> TRUE, mode |-> mode, fresh |-> fresh]

Present(d) == { n \in Entries : d[n].present }

\* a file written at the path: an existing file is truncated and keeps its
\* mode, a new one gets the mode the writer and the umask give it
Written(d, n, mode, fresh) ==
    [d EXCEPT ![n] = IF d[n].present THEN File(d[n].mode, fresh) ELSE File(mode, fresh)]

Absent == [present |-> FALSE, mode |-> 0, fresh |-> FALSE]

Snapshot == [dir |-> dir, disk |-> disk]

NoSnapshot == [dir |-> FALSE, disk |-> [n \in Entries |-> Absent]]

\* status: "ok" (returned) or "error" (raised); value: what exists() returned;
\* injected: the error is a failure the operating system or the tool
\* reported (ok = FALSE), not one the state of the disk caused
NoRet == [op |-> "none", status |-> "none", value |-> FALSE, injected |-> FALSE]

NoSeen == [checked |-> {}, found |-> {}]

\* all handles idle and no orphaned branch still running
Quiet == (\A c \in Names : op[c] = "none") /\ orphans = {}

\* the derived values a caller can read off a handle
Properties == {"common_name", "email", "subject"}

\* -------------------------------------------------------------------- Init
\* any subset of the handle's artifacts and of the foreign files is on disk
DiskInit ==
    { [n \in Entries |-> IF n \in S THEN File(umask, FALSE) ELSE Absent] :
        S \in SUBSET (Artifacts("site") \cup Foreign) }

ProcInit ==
    /\ op = [c \in Names |-> "none"]
    /\ pc = [c \in Names |-> "idle"]
    /\ branches = [c \in Names |-> {}]
    /\ orphans = {}
    /\ seen = [c \in Names |-> NoSeen]
    /\ serialFlag = [c \in Names |-> FALSE]
    /\ ret = [c \in Names |-> NoRet]
    /\ prev = [c \in Names |-> NoRet]
    /\ pre = [c \in Names |-> NoSnapshot]
    /\ cmdlog = [c \in Names |-> << >>]
    /\ chlog = [c \in Names |-> << >>]

Init ==
    /\ umask \in NewFileModes
    /\ dir \in BOOLEAN
    /\ disk \in DiskInit
    /\ ~dir => Present(disk) = {}
    /\ ca \in { [pem |-> TRUE, key |-> TRUE, srl |-> s] : s \in BOOLEAN }
    /\ ProcInit
    /\ probe = DomainOf("site")
    /\ view = [p \in Properties |-> "unread"]
    /\ conftext = << >>

\* ------------------------------------------------------- control transfer
\* the coroutine moves on to label with br as the branches it now awaits
Step(c, label, br) ==
    /\ pc' = [pc EXCEPT ![c] = label]
    /\ branches' = [branches EXCEPT ![c] = br]
    /\ UNCHANGED <<op, ret, orphans>>

\* the top-level call returns (status "ok") or raises (status "error") to
\* its caller; the branches in left are not cancelled and keep running
Finish(c, outcome, left) ==
    /\ op' = [op EXCEPT ![c] = "none"]
    /\ pc' = [pc EXCEPT ![c] = "idle"]
    /\ ret' = [ret EXCEPT ![c] = outcome]
    /\ branches' = [branches EXCEPT ![c] = {}]
    /\ orphans' = orphans \cup left

Return(c, value) ==
    Finish(c, [op |-> op[c], status |-> "ok", value |-> value, injected |-> FALSE], {})

\* ok is the parameter of the call that failed
Raise(c, ok, left) ==
    Finish(c, [op |-> op[c], status |-> "error", value |-> FALSE, injected |-> ~ok], left)

\* a call begins: the caller's view of the previous outcome is kept in prev
Begin(c, name, label, br) ==
    /\ op[c] = "none"
    /\ op' = [op EXCEPT ![c] = name]
    /\ pc' = [pc EXCEPT ![c] = label]
    /\ branches' = [branches EXCEPT ![c] = br]
    /\ prev' = [prev EXCEPT ![c] = ret[c]]
    /\ ret' = [ret EXCEPT ![c] = NoRet]
    /\ pre' = [pre EXCEPT ![c] = Snapshot]
    /\ cmdlog' = [cmdlog EXCEPT ![c] = << >>]
    /\ chlog' = [chlog EXCEPT ![c] = << >>]

\* faulty variant: the .csr file is not among the files removed
UnlinkBranches_nocsr(c) ==
    { [owner |-> c, kind |-> "unlink", ext |-> e, cur |-> TRUE] : e \in Exts \ {"csr"} }

\* the four unlinks handed to gather (lines 154-159)
UnlinkBranches(c) ==
    { [owner |-> c, kind |-> "unlink", ext |-> e, cur |-> TRUE] : e \in Exts }

\* the two coroutines handed to gather (lines 123-126)
GenerationBranches(c) ==
    { [owner |-> c, kind |-> "write_conf", ext |-> "conf", cur |-> TRUE],
      [owner |-> c, kind |-> "genrsa", ext |-> "key", cur |-> TRUE] }

\* ------------------------------------------------------------------ exists
StartExists(c) ==
    /\ Begin(c, "exists", "probe", {})
    /\ seen' = [seen EXCEPT ![c] = NoSeen]
    /\ UNCHANGED <<fsvars, orphans, serialFlag, derivevars>>

\* one of the four Path.exists() calls of the gather, in any order
ExistsProbe(c, e) ==
    /\ op[c] = "exists" /\ pc[c] = "probe"
    /\ e \notin seen[c].checked
    /\ seen' = [seen EXCEPT ![c] =
                  [checked |-> @.checked \cup {e},
                   found |-> IF disk[ArtifactName(c, e)].present
                             THEN @.found \cup {e} ELSE @.found]]
    /\ UNCHANGED <<fsvars, op, pc, branches, orphans, serialFlag, ghostvars,
                   derivevars>>

\* faulty variant: or in place of and
ExistsResult_any(found) == found /= {}

\* key_exists and csr_exists and crt_exists and conf_exists
ExistsResult(found) ==
    "key" \in found /\ "csr" \in found /\ "crt" \in found /\ "conf" \in found

ExistsReturn(c) ==
    /\ op[c] = "exists" /\ pc[c] = "probe"
    /\ seen[c].checked = Exts
    /\ Return(c, ExistsResult(seen[c].found))
    /\ seen' = [seen EXCEPT ![c] = NoSeen]
    /\ UNCHANGED <<fsvars, serialFlag, prev, pre, cmdlog, chlog, derivevars>>

\* ------------------------------------------------------------------ delete
StartDelete(c) ==
    /\ Begin(c, "delete", "unlink", UnlinkBranches(c))
    /\ UNCHANGED <<fsvars, orphans, seen, serialFlag, derivevars>>

\* faulty variant: the return of line 162 ends create as well
DeleteDone_returns(c) == Return(c, FALSE)

\* delete() is over: inside create the coroutine goes on to line 121
DeleteDone(c) ==
    IF op[c] = "create" THEN Step(c, "mkdir", {}) ELSE Return(c, FALSE)

\* faulty variant: unlink() without missing_ok raises on an absent file
Unlinked_strict(d, n, ok) == ok /\ d[n].present

\* Path.unlink(missing_ok=True) returns normally: an absent file is no error
Unlinked(d, n, ok) == ok

\* faulty variant: the unlink reports success and leaves the file
Unlink_keep(c, b, ok) ==
    /\ op[c] \in {"delete", "create"} /\ pc[c] = "unlink"
    /\ b \in branches[c] /\ b.kind = "unlink"
    /\ LET rest == branches[c] \ {b}
       IN  /\ disk' = disk
           /\ Step(c, IF rest = {} THEN "root_exists" ELSE "unlink", rest)
    /\ UNCHANGED <<dir, ca, umask, seen, serialFlag, prev, pre, cmdlog, chlog,
                   derivevars>>

\* one unlink of the gather; the first failure raises out of the gather
Unlink(c, b, ok) ==
    /\ op[c] \in {"delete", "create"} /\ pc[c] = "unlink"
    /\ b \in branches[c] /\ b.kind = "unlink"
    /\ LET n == ArtifactName(c, b.ext)
           rest == branches[c] \ {b}
       IN  IF Unlinked(disk, n, ok)
           THEN /\ disk' = [disk EXCEPT ![n] = Absent]
                /\ Step(c, IF rest = {} THEN "root_exists" ELSE "unlink", rest)
           ELSE /\ disk' = disk
                /\ Raise(c, ok, rest)
    /\ UNCHANGED <<dir, ca, umask, seen, serialFlag, prev, pre, cmdlog, chlog,
                   derivevars>>

\* faulty variant: the directory is listed without the test of line 160
DeleteCheckRoot_nocheck(c) ==
    /\ op[c] \in {"delete", "create"} /\ pc[c] = "root_exists"
    /\ Step(c, "glob", {})
    /\ UNCHANGED <<fsvars, seen, serialFlag, prev, pre, cmdlog, chlog, derivevars>>

\* line 160: if await self._root_path.exists()
DeleteCheckRoot(c) ==
    /\ op[c] \in {"delete", "create"} /\ pc[c] = "root_exists"
    /\ IF dir THEN Step(c, "glob", {}) ELSE DeleteDone(c)
    /\ UNCHANGED <<fsvars, seen, serialFlag, prev, pre, cmdlog, chlog, derivevars>>

\* faulty variant: only the certificate's own files count as entries
GlobHit_own(c, d) == dir /\ Present(d) \cap Artifacts(c) /= {}

\* lines 161-162: glob('*') yields an entry, whatever its name
GlobHit(c, d) == dir /\ Present(d) /= {}

\* the first entry the glob yields makes delete return; none: line 163
DeleteGlob(c) ==
    /\ op[c] \in {"delete", "create"} /\ pc[c] = "glob"
    /\ IF GlobHit(c, disk) THEN DeleteDone(c) ELSE Step(c, "rmdir", {})
    /\ UNCHANGED <<fsvars, seen, serialFlag, prev, pre, cmdlog, chlog, derivevars>>

\* faulty variant: the directory is removed with whatever it holds
DeleteRmdir_force(c, ok) ==
    /\ op[c] \in {"delete", "create"} /\ pc[c] = "rmdir"
    /\ IF ok /\ dir
       THEN dir' = FALSE /\ DeleteDone(c)
       ELSE dir' = dir /\ Raise(c, ok, {})
    /\ UNCHANGED <<disk, ca, umask, seen, serialFlag, prev, pre, cmdlog, chlog,
                   derivevars>>

\* line 163: rmdir fails on a directory that is missing or not empty
DeleteRmdir(c, ok) ==
    /\ op[c] \in {"delete", "create"} /\ pc[c] = "rmdir"
    /\ IF ok /\ dir /\ Present(disk) = {}
       THEN dir' = FALSE /\ DeleteDone(c)
       ELSE dir' = dir /\ Raise(c, ok, {})
    /\ UNCHANGED <<disk, ca, umask, seen, serialFlag, prev, pre, cmdlog, chlog,
                   derivevars>>

\* ------------------------------------------------------------------ create
\* whatever is on disk, or still being written by an orphan of an earlier
\* call, is from now on not the work of the latest create call
Aged(c, d) ==
    [n \in Entries |->
        IF n \in Artifacts(c) /\ d[n].present THEN File(d[n].mode, FALSE) ELSE d[n]]

\* faulty variant: create goes straight to mkdir, without the reset
StartCreate_noreset(c) ==
    /\ Begin(c, "create", "mkdir", {})
    /\ disk' = Aged(c, disk)
    /\ orphans' = { IF b.owner = c THEN [b EXCEPT !.cur = FALSE] ELSE b : b \in orphans }
    /\ UNCHANGED <<dir, ca, umask, seen, serialFlag, derivevars>>

\* line 120: create begins with the whole of delete()
StartCreate(c) ==
    /\ Begin(c, "create", "unlink", UnlinkBranches(c))
    /\ disk' = Aged(c, disk)
    /\ orphans' = { IF b.owner = c THEN [b EXCEPT !.cur = FALSE] ELSE b : b \in orphans }
    /\ UNCHANGED <<dir, ca, umask, seen, serialFlag, derivevars>>

\* faulty variant: mkdir without exist_ok raises on an existing directory
Mkdir_noexist(c, ok) ==
    /\ op[c] = "create" /\ pc[c] = "mkdir"
    /\ IF ok /\ ~dir
       THEN dir' = TRUE /\ Step(c, "gather", GenerationBranches(c))
       ELSE dir' = dir /\ Raise(c, ok, {})
    /\ UNCHANGED <<disk, ca, umask, seen, serialFlag, prev, pre, cmdlog, chlog,
                   derivevars>>

\* line 121: mkdir(parents=True, exist_ok=True), then the gather of line 123
Mkdir(c, ok) ==
    /\ op[c] = "create" /\ pc[c] = "mkdir"
    /\ IF ok
       THEN dir' = TRUE /\ Step(c, "gather", GenerationBranches(c))
       ELSE dir' = dir /\ Raise(c, ok, {})
    /\ UNCHANGED <<disk, ca, umask, seen, serialFlag, prev, pre, cmdlog, chlog,
                   derivevars>>

\* what a writer leaves at entry n: a run that succeeded has written the
\* file; one that failed has written it or not (left)
Output(d, n, succ, left, fresh) ==
    IF dir /\ (succ \/ left) THEN Written(d, n, umask, fresh) ELSE d

\* lines 100-106
GenRsaArgs(c) ==
    <<"openssl", "genrsa", "-out", Resolve(key_path(c)), "2048">>

\* lines 108-117
ReqArgs(c) ==
    <<"openssl", "req", "-new",
      "-key", Resolve(key_path(c)),
      "-out", Resolve(csr_path(c)),
      "-subj", subject(DomainOf(c)),
      "-config", Resolve(conf_path(c))>>

\* faulty variant: the flag is appended unconditionally
SerialParams_always(flag) == <<"-CAcreateserial">>

\* lines 138-139
SerialParams(flag) == IF flag THEN <<"-CAcreateserial">> ELSE << >>

\* lines 129-149
X509Args(c, flag) ==
    <<"openssl", "x509", "-req", "-sha256", "-days", "730",
      "-CA", Resolve(AuthorityPath("pem")),
      "-CAkey", Resolve(AuthorityPath("key")),
      "-CAserial", Resolve(AuthorityPath("srl"))>>
    \o SerialParams(flag) \o
    <<"-in", Resolve(csr_path(c)),
      "-out", Resolve(crt_path(c)),
      "-extensions", "v3_req",
      "-extfile", Resolve(conf_path(c))>>

\* the executor records an invocation: its arguments, whether it succeeded,
\* whether the serial file existed then, and whether the latest create made it
Logged(c, args, succ, cur) ==
    [cmdlog EXCEPT ![c] =
        Append(@, [args |-> args, ok |-> succ, srl |-> ca.srl, cur |-> cur])]

\* faulty variant: a failed write of the configuration is swallowed
WriteConf_unchecked(c, b, ok, left) ==
    /\ op[c] = "create" /\ pc[c] = "gather"
    /\ b \in branches[c] /\ b.kind = "write_conf"
    /\ LET succ == ok /\ dir
           rest == branches[c] \ {b}
       IN  /\ disk' = Output(disk, ArtifactName(c, "conf"), succ, left, b.cur)
           /\ Step(c, IF rest = {} THEN "req" ELSE "gather", rest)
    /\ UNCHANGED <<dir, ca, umask, seen, serialFlag, prev, pre, cmdlog, chlog,
                   derivevars>>

\* gather branch: _build_certificate_conf (write_text, lines 71-98)
WriteConf(c, b, ok, left) ==
    /\ op[c] = "create" /\ pc[c] = "gather"
    /\ b \in branches[c] /\ b.kind = "write_conf"
    /\ LET succ == ok /\ dir
           rest == branches[c] \ {b}
       IN  /\ disk' = Output(disk, ArtifactName(c, "conf"), succ, left, b.cur)
           /\ IF succ
              THEN Step(c, IF rest = {} THEN "req" ELSE "gather", rest)
              ELSE Raise(c, ok, rest)
    /\ UNCHANGED <<dir, ca, umask, seen, serialFlag, prev, pre, cmdlog, chlog,
                   derivevars>>

\* gather branch: _create_private_key (openssl genrsa, lines 100-106)
GenRsa(c, b, ok, left) ==
    /\ op[c] = "create" /\ pc[c] = "gather"
    /\ b \in branches[c] /\ b.kind = "genrsa"
    /\ LET succ == ok /\ dir
           rest == branches[c] \ {b}
       IN  /\ disk' = Output(disk, ArtifactName(c, "key"), succ, left, b.cur)
           /\ cmdlog' = Logged(c, GenRsaArgs(c), succ, b.cur)
           /\ IF succ
              THEN Step(c, IF rest = {} THEN "req" ELSE "gather", rest)
              ELSE Raise(c, ok, rest)
    /\ UNCHANGED <<dir, ca, umask, seen, serialFlag, prev, pre, chlog, derivevars>>

\* faulty variant: the failure of the req run is swallowed
Req_unchecked(c, ok, left) ==
    /\ op[c] = "create" /\ pc[c] = "req"
    /\ LET succ == ok /\ dir
       IN  /\ disk' = Output(disk, ArtifactName(c, "csr"), succ, left, TRUE)
           /\ cmdlog' = Logged(c, ReqArgs(c), succ, TRUE)
           /\ Step(c, "srl_check", {})
    /\ UNCHANGED <<dir, ca, umask, seen, serialFlag, prev, pre, chlog, derivevars>>

\* line 127: _create_signing_request (openssl req -new)
Req(c, ok, left) ==
    /\ op[c] = "create" /\ pc[c] = "req"
    /\ LET succ == ok /\ dir
       IN  /\ disk' = Output(disk, ArtifactName(c, "csr"), succ, left, TRUE)
           /\ cmdlog' = Logged(c, ReqArgs(c), succ, TRUE)
           /\ IF succ THEN Step(c, "srl_check", {}) ELSE Raise(c, ok, {})
    /\ UNCHANGED <<dir, ca, umask, seen, serialFlag, prev, pre, chlog, derivevars>>

\* faulty variant: the core creates the missing serial file itself
SrlCheck_touch(c) ==
    /\ op[c] = "create" /\ pc[c] = "srl_check"
    /\ serialFlag' = [serialFlag EXCEPT ![c] = ~ca.srl]
    /\ ca' = [ca EXCEPT !.srl = TRUE]
    /\ Step(c, "x509", {})
    /\ UNCHANGED <<dir, disk, umask, seen, prev, pre, cmdlog, chlog, derivevars>>

\* line 138: if not await self._authority.srl_path.exists()
SrlCheck(c) ==
    /\ op[c] = "create" /\ pc[c] = "srl_check"
    /\ serialFlag' = [serialFlag EXCEPT ![c] = ~ca.srl]
    /\ Step(c, "x509", {})
    /\ UNCHANGED <<fsvars, seen, prev, pre, cmdlog, chlog, derivevars>>

\* line 149: openssl x509 -req; with -CAcreateserial the tool creates the
\* authority's serial file
X509(c, ok, left) ==
    /\ op[c] = "create" /\ pc[c] = "x509"
    /\ LET succ == ok /\ dir
           args == X509Args(c, serialFlag[c])
           creates == \E i \in 1..Len(args) : args[i] = "-CAcreateserial"
       IN  /\ disk' = Output(disk, ArtifactName(c, "crt"), succ, left, TRUE)
           /\ ca' = IF creates /\ (succ \/ left) THEN [ca EXCEPT !.srl = TRUE] ELSE ca
           /\ cmdlog' = Logged(c, args, succ, TRUE)
           /\ IF succ THEN Step(c, "chmod_crt", {}) ELSE Raise(c, ok, {})
    /\ serialFlag' = [serialFlag EXCEPT ![c] = FALSE]
    /\ UNCHANGED <<dir, umask, seen, prev, pre, chlog, derivevars>>

\* faulty variant: the mode is not applied
Chmod_nop(d, n, mode) == d

\* Path.chmod(mode) on an existing file
Chmod(d, n, mode) == [d EXCEPT ![n] = File(mode, d[n].fresh)]

\* line 150: await self.crt_path.chmod(0o644); fails on a missing file
ChmodCrt(c, ok) ==
    /\ op[c] = "create" /\ pc[c] = "chmod_crt"
    /\ LET n == ArtifactName(c, "crt")
       IN  IF ok /\ disk[n].present
           THEN /\ disk' = Chmod(disk, n, Mode644)
                /\ chlog' = [chlog EXCEPT ![c] = Append(@, <<"crt", Mode644>>)]
                /\ Step(c, "chmod_key", {})
           ELSE /\ UNCHANGED <<disk, chlog>>
                /\ Raise(c, ok, {})
    /\ UNCHANGED <<dir, ca, umask, seen, serialFlag, prev, pre, cmdlog, derivevars>>

\* line 151: await self.key_path.chmod(0o644), then create returns
ChmodKey(c, ok) ==
    /\ op[c] = "create" /\ pc[c] = "chmod_key"
    /\ LET n == ArtifactName(c, "key")
       IN  IF ok /\ disk[n].present
           THEN /\ disk' = Chmod(disk, n, Mode644)
                /\ chlog' = [chlog EXCEPT ![c] = Append(@, <<"key", Mode644>>)]
                /\ Return(c, FALSE)
           ELSE /\ UNCHANGED <<disk, chlog>>
                /\ Raise(c, ok, {})
    /\ UNCHANGED <<dir, ca, umask, seen, serialFlag, prev, pre, cmdlog, derivevars>>

\* ------------------------------------------- branches a gather left behind
\* an unlink whose gather has already raised still runs to its end
OrphanUnlink(b, ok) ==
    /\ b \in orphans /\ b.kind = "unlink"
    /\ LET n == ArtifactName(b.owner, b.ext)
       IN  disk' = IF Unlinked(disk, n, ok) THEN [disk EXCEPT ![n] = Absent] ELSE disk
    /\ orphans' = orphans \ {b}
    /\ UNCHANGED <<dir, ca, umask, op, pc, branches, seen, serialFlag, ghostvars,
                   derivevars>>

OrphanWriteConf(b, ok, left) ==
    /\ b \in orphans /\ b.kind = "write_conf"
    /\ disk' = Output(disk, ArtifactName(b.owner, "conf"), ok /\ dir, left, b.cur)
    /\ orphans' = orphans \ {b}
    /\ UNCHANGED <<dir, ca, umask, op, pc, branches, seen, serialFlag, ghostvars,
                   derivevars>>

OrphanGenRsa(b, ok, left) ==
    /\ b \in orphans /\ b.kind = "genrsa"
    /\ disk' = Output(disk, ArtifactName(b.owner, "key"), ok /\ dir, left, b.cur)
    /\ cmdlog' = Logged(b.owner, GenRsaArgs(b.owner), ok /\ dir, b.cur)
    /\ orphans' = orphans \ {b}
    /\ UNCHANGED <<dir, ca, umask, op, pc, branches, seen, serialFlag, ret, prev,
                   pre, chlog, derivevars>>

\* ------------------------------------------------------------- environment
\* once something outside the handles has acted, the recorded outcomes no
\* longer describe calls made in succession: the records start afresh
Forget ==
    /\ ret' = [c \in Names |-> NoRet]
    /\ prev' = [c \in Names |-> NoRet]
    /\ pre' = [c \in Names |-> NoSnapshot]
    /\ cmdlog' = [c \in Names |-> << >>]
    /\ chlog' = [c \in Names |-> << >>]

\* another program writes a file of its own into the storage directory
EnvWrite(f) ==
    /\ dir /\ ~disk[f].present
    /\ disk' = Written(disk, f, umask, FALSE)
    /\ Forget
    /\ UNCHANGED <<dir, ca, umask, procvars, derivevars>>

\* a file of the storage directory is removed out of band
EnvUnlink(n) ==
    /\ disk[n].present
    /\ disk' = [disk EXCEPT ![n] = Absent]
    /\ Forget
    /\ UNCHANGED <<dir, ca, umask, procvars, derivevars>>

\* the authority component creates or removes its serial file
EnvSerial ==
    /\ ca' = [ca EXCEPT !.srl = ~@]
    /\ Forget
    /\ UNCHANGED <<dir, disk, umask, procvars, derivevars>>

\* ----------------------------------------------------------- specification
\* One handle, one call at a time (spec: "single logical operation at a time
\* per Certificate instance"): a call starts, and the environment acts, only
\* when no call and no orphaned branch is running.
Handles == {"site"}

Next ==
    \/ \E c \in Handles : Quiet /\ StartExists(c)
    \/ \E c \in Handles, e \in Exts : ExistsProbe(c, e)
    \/ \E c \in Handles : ExistsReturn(c)
    \/ \E c \in Handles : Quiet /\ StartDelete(c)
    \/ \E c \in Handles : Quiet /\ StartCreate(c)
    \/ \E c \in Handles : \E b \in branches[c], ok \in BOOLEAN : Unlink(c, b, ok)
    \/ \E c \in Handles : DeleteCheckRoot(c)
    \/ \E c \in Handles : DeleteGlob(c)
    \/ \E c \in Handles, ok \in BOOLEAN : DeleteRmdir(c, ok)
    \/ \E c \in Handles, ok \in BOOLEAN : Mkdir(c, ok)
    \/ \E c \in Handles : \E b \in branches[c], ok, left \in BOOLEAN :
          WriteConf(c, b, ok, left)
    \/ \E c \in Handles : \E b \in branches[c], ok, left \in BOOLEAN :
          GenRsa(c, b, ok, left)
    \/ \E c \in Handles, ok, left \in BOOLEAN : Req(c, ok, left)
    \/ \E c \in Handles : SrlCheck(c)
    \/ \E c \in Handles, ok, left \in BOOLEAN : X509(c, ok, left)
    \/ \E c \in Handles, ok \in BOOLEAN : ChmodCrt(c, ok)
    \/ \E c \in Handles, ok \in BOOLEAN : ChmodKey(c, ok)
    \/ \E b \in orphans, ok \in BOOLEAN : OrphanUnlink(b, ok)
    \/ \E b \in orphans, ok, left \in BOOLEAN : OrphanWriteConf(b, ok, left)
    \/ \E b \in orphans, ok, left \in BOOLEAN : OrphanGenRsa(b, ok, left)
    \/ \E f \in Foreign : Quiet /\ EnvWrite(f)
    \/ \E n \in Entries : Quiet /\ EnvUnlink(n)
    \/ Quiet /\ EnvSerial

Spec == Init /\ [][Next]_vars

\* ------------------------------------------ derived-value specification
\* A handle constructed for any domain of Domains; the caller reads its
\* derived properties in any order.  No coroutine runs.
InitDerive ==
    /\ umask = Mode644
    /\ dir = FALSE
    /\ disk = [n \in Entries |-> Absent]
    /\ ca = [pem |-> TRUE, key |-> TRUE, srl |-> FALSE]
    /\ ProcInit
    /\ probe \in Domains
    /\ view = [p \in Properties |-> "unread"]
    /\ conftext = << >>

Read(p, value) ==
    /\ view[p] = "unread"
    /\ view' = [view EXCEPT ![p] = value]
    /\ UNCHANGED <<fsvars, procvars, ghostvars, probe, conftext>>

ReadCommonName == Read("common_name", common_name(probe))

ReadEmail == Read("email", email(probe))

ReadSubject == Read("subject", subject(probe))

\* lines 71-98 up to the write: the text is built from the domain
BuildConf ==
    /\ conftext = << >>
    /\ conftext' = ConfText(probe)
    /\ UNCHANGED <<fsvars, procvars, ghostvars, probe, view>>

NextDerive == ReadCommonName \/ ReadEmail \/ ReadSubject \/ BuildConf

SpecDerive == InitDerive /\ [][NextDerive]_vars

\* ------------------------------------- delete against a concurrent writer
\* One handle calls delete, again and again; another program adds files to
\* the storage directory at any moment, also in the middle of a delete.
Others == Foreign \cup {ArtifactName("peer", "key")}

InitRace == Init /\ umask = Mode644 /\ ~ca.srl

NextRace ==
    \/ \E c \in Handles : StartDelete(c)
    \/ \E c \in Handles : \E b \in branches[c], ok \in BOOLEAN : Unlink(c, b, ok)
    \/ \E c \in Handles : DeleteCheckRoot(c)
    \/ \E c \in Handles : DeleteGlob(c)
    \/ \E c \in Handles, ok \in BOOLEAN : DeleteRmdir(c, ok)
    \/ \E b \in orphans, ok \in BOOLEAN : OrphanUnlink(b, ok)
    \/ \E f \in Others : EnvWrite(f)

SpecRace == InitRace /\ [][NextRace]_vars

\* ------------------------------------------ two certificates in one root
\* The handle "site" calls delete while the handle "peer", of another name
\* and in the same storage root, calls create.  No filesystem call and no
\* tool is made to fail: a step fails only where the state of the disk
\* makes it fail.
Deleter == "site"

Creator == "peer"

\* the deleter's certificate is complete or absent; nothing else is on disk
InitShare ==
    /\ Init /\ umask = Mode644 /\ ~ca.srl
    /\ Present(disk) \in {{}, Artifacts(Deleter)}

NextShare ==
    \/ StartDelete(Deleter)
    \/ StartCreate(Creator)
    \/ \E c \in Names : \E b \in branches[c] : Unlink(c, b, TRUE)
    \/ \E c \in Names : DeleteCheckRoot(c)
    \/ \E c \in Names : DeleteGlob(c)
    \/ \E c \in Names : DeleteRmdir(c, TRUE)
    \/ Mkdir(Creator, TRUE)
    \/ \E b \in branches[Creator] : WriteConf(Creator, b, TRUE, FALSE)
    \/ \E b \in branches[Creator] : GenRsa(Creator, b, TRUE, FALSE)
    \/ Req(Creator, TRUE, FALSE)
    \/ SrlCheck(Creator)
    \/ X509(Creator, TRUE, FALSE)
    \/ ChmodCrt(Creator, TRUE)
    \/ ChmodKey(Creator, TRUE)
    \/ \E b \in orphans : OrphanWriteConf(b, TRUE, FALSE)
    \/ \E b \in orphans : OrphanGenRsa(b, TRUE, FALSE)

SpecShare == InitShare /\ [][NextShare]_vars


\* ================================================================== claims
\* the handle the lifecycle specification drives
Site == "site"

Own == Artifacts(Site)

AllPresent(d) == \A n \in Own : d[n].present

Ended(name) == op[Site] = "none" /\ ret[Site].op = name

EndedOk(name) == Ended(name) /\ ret[Site].status = "ok"

\* no filesystem call and no tool of the call was made to fail
Unhindered == ~ret[Site].injected

\* C1: when exists() returns, its value is TRUE exactly when all four
\* artifact files were present, and the directory and every file are as
\* they were when it was called.
C1_ExistsAllOrNothing ==
    Ended("exists") =>
        /\ ret[Site].status = "ok"
        /\ ret[Site].value = AllPresent(pre[Site].disk)
        /\ dir = pre[Site].dir
        /\ disk = pre[Site].disk

\* exists() returned FALSE with every artifact but the .crt file present
C1_Witness ==
    /\ Ended("exists")
    /\ ~ret[Site].value
    /\ Present(pre[Site].disk) \cap Own = Own \ {ArtifactName(Site, "crt")}

\* C2: create fails only when a filesystem call or a tool is made to fail,
\* whatever was on disk before; when it returns, the directory and all four
\* artifacts are present.
C2_CreateFromAnyState ==
    Ended("create") =>
        /\ ret[Site].status = "error" => ret[Site].injected
        /\ ret[Site].status = "ok" => dir /\ AllPresent(disk)

\* create succeeded over a partial artifact set in a directory that also
\* held a foreign file
C2_Witness ==
    /\ EndedOk("create")
    /\ pre[Site].disk[ArtifactName(Site, "key")].present
    /\ ~pre[Site].disk[ArtifactName(Site, "crt")].present
    /\ \E f \in Foreign : pre[Site].disk[f].present

\* C3: a create right after a successful create, with nothing made to fail,
\* succeeds and leaves the same entries in the same directory as the first
\* one did, every artifact written by the second call.
C3_CreateTwice ==
    (Ended("create") /\ prev[Site].op = "create" /\ prev[Site].status = "ok"
        /\ Unhindered) =>
        /\ ret[Site].status = "ok"
        /\ dir /\ pre[Site].dir
        /\ Present(disk) = Present(pre[Site].disk)
        /\ \A n \in Own : disk[n].present /\ disk[n].fresh

\* two successful creates in succession
C3_Witness ==
    /\ EndedOk("create")
    /\ prev[Site].op = "create" /\ prev[Site].status = "ok"
    /\ AllPresent(pre[Site].disk)

NeverCreated == Present(pre[Site].disk) \cap Own = {}

\* C4 as stated: delete on a never-created certificate succeeds and leaves
\* the filesystem unchanged, whatever the state of the storage directory.
C4_Original ==
    (Ended("delete") /\ NeverCreated /\ Unhindered) =>
        /\ ret[Site].status = "ok"
        /\ dir = pre[Site].dir
        /\ disk = pre[Site].disk

\* C4 amended: delete on a never-created certificate succeeds and leaves
\* every file unchanged; the storage directory is unchanged too, except that
\* a directory that was present and empty has been removed.
C4_DeleteNeverCreated ==
    (Ended("delete") /\ NeverCreated /\ Unhindered) =>
        /\ ret[Site].status = "ok"
        /\ disk = pre[Site].disk
        /\ dir = (pre[Site].dir /\ Present(pre[Site].disk) /= {})

\* delete on a never-created certificate removed the empty directory
C4_Witness ==
    /\ EndedOk("delete")
    /\ NeverCreated
    /\ pre[Site].dir /\ ~dir

\* C5: delete fails only when a filesystem call is made to fail, never
\* because a file is absent; a delete right after a successful delete
\* succeeds too and leaves the directory and every file as the first did.
C5_DeleteIdempotent ==
    (Ended("delete") /\ Unhindered) =>
        /\ ret[Site].status = "ok"
        /\ (prev[Site].op = "delete" /\ prev[Site].status = "ok") =>
              dir = pre[Site].dir /\ disk = pre[Site].disk

\* a second delete in succession, the first one having removed files
C5_Witness ==
    /\ EndedOk("delete")
    /\ prev[Site].op = "delete" /\ prev[Site].status = "ok"
    /\ pre[Site].dir
    /\ \E f \in Foreign : disk[f].present

\* C6: after a delete in which nothing was made to fail the four artifacts
\* are absent, every other entry is as it was, and the directory is gone
\* exactly when it held nothing but the four artifacts.
C6_DirectoryCleanup ==
    (Ended("delete") /\ Unhindered) =>
        /\ ret[Site].status = "ok"
        /\ \A n \in Own : ~disk[n].present
        /\ \A n \in Entries \ Own : disk[n] = pre[Site].disk[n]
        /\ dir = (pre[Site].dir /\ ~(Present(pre[Site].disk) \subseteq Own))

\* delete removed four artifacts and left the directory with its fifth file
C6_Witness ==
    /\ EndedOk("delete")
    /\ AllPresent(pre[Site].disk)
    /\ dir
    /\ \E f \in Foreign : disk[f].present

Failed(i) == ~cmdlog[Site][i].ok

Tool(i) == cmdlog[Site][i].args[2]

\* C7: once an external-tool invocation of create has failed, create has
\* raised, that invocation is the last one, no chmod has been applied, and
\* when it is the req invocation there is no signed certificate file.
C7_FailurePropagation ==
    \A i \in 1..Len(cmdlog[Site]) :
        Failed(i) =>
            /\ Ended("create") /\ ret[Site].status = "error"
            /\ i = Len(cmdlog[Site])
            /\ chlog[Site] = << >>
            /\ Tool(i) = "req" => ~disk[ArtifactName(Site, "crt")].present

\* the req invocation failed after the key file had been written
C7_Witness ==
    /\ Len(cmdlog[Site]) = 2
    /\ Tool(2) = "req" /\ Failed(2)
    /\ disk[ArtifactName(Site, "key")].present

IsSerialFlag(a) == a = "-CAcreateserial"

NotSerialFlag(a) == ~IsSerialFlag(a)

\* C8: the x509 invocation carries -CAcreateserial exactly when the serial
\* file is absent as the tool is run, once, and is otherwise the same
\* argument list.
C8_SerialFlag ==
    \A i \in 1..Len(cmdlog[Site]) :
        Tool(i) = "x509" =>
            LET e == cmdlog[Site][i]
                flags == Len(SelectSeq(e.args, IsSerialFlag))
            IN  /\ flags = IF e.srl THEN 0 ELSE 1
                /\ Len(e.args) = Len(X509Args(Site, FALSE)) + flags
                /\ SelectSeq(e.args, NotSerialFlag) = X509Args(Site, FALSE)

\* an x509 invocation made while the serial file exists
C8_Witness ==
    \E i \in 1..Len(cmdlog[Site]) : Tool(i) = "x509" /\ cmdlog[Site][i].srl

\* C9: when create has returned, the signed certificate and the private key
\* both have mode 0644, each set by a chmod of that call.
C9_WorldReadable ==
    EndedOk("create") =>
        /\ \A e \in {"crt", "key"} :
              LET f == disk[ArtifactName(Site, e)]
              IN  f.present /\ f.mode = Mode644
        /\ chlog[Site] = << <<"crt", Mode644>>, <<"key", Mode644>> >>

\* create returned in a run whose new files are not created world-readable
C9_Witness == EndedOk("create") /\ umask /= Mode644

\* C10: subject is /C=/ST=/O=/localityName=/commonName=<d>
\* /organizationalUnitName=/emailAddress=<d>@localhttps/ for every domain d.
C10_Subject ==
    view["subject"] /= "unread" =>
        /\ view["subject"] =
              "/C=" \o "/ST=" \o "/O=" \o "/localityName=" \o "/commonName=" \o probe
              \o "/organizationalUnitName=" \o "/emailAddress=" \o probe \o "@localhttps"
              \o "/"
        /\ probe = "example.test" =>
              view["subject"] =
                 "/C=/ST=/O=/localityName=/commonName=example.test/organizationalUnitName=/emailAddress=example.test@localhttps/"

\* the subject of a handle for example.test has been read
C10_Witness == probe = "example.test" /\ view["subject"] /= "unread"


\* the lines of text from the one after header h to the next empty line
Section(text, h) ==
    LET i == CHOOSE k \in 1..Len(text) : text[k] = h
        ends == { k \in (i + 1)..(Len(text) + 1) : k = Len(text) + 1 \/ text[k] = "" }
        j == CHOOSE k \in ends : \A m \in ends : k <= m
    IN  SubSeq(text, i + 1, j - 1)

Headers(text, h) == { k \in 1..Len(text) : text[k] = h }

\* text up to and including header h
UpTo(text, h) == SubSeq(text, 1, CHOOSE k \in 1..Len(text) : text[k] = h)

\* C11: the configuration text has one alt_names section, holding exactly
\* DNS.1 = d and DNS.2 = *.d, and one v3_req section whose subjectAltName
\* is @alt_names; the rest of the text is the same for every domain.
C11_ConfText ==
    conftext /= << >> =>
        /\ Cardinality(Headers(conftext, "[alt_names]")) = 1
        /\ Section(conftext, "[alt_names]") =
              << "DNS.1 = " \o probe, "DNS.2 = *." \o probe >>
        /\ Cardinality(Headers(conftext, "[ v3_req ]")) = 1
        /\ \E k \in 1..Len(Section(conftext, "[ v3_req ]")) :
              Section(conftext, "[ v3_req ]")[k] = "subjectAltName = @alt_names"
        /\ Len(conftext) = Len(UpTo(conftext, "[alt_names]")) + 2
        /\ UpTo(conftext, "[alt_names]") = UpTo(ConfText("example.test"), "[alt_names]")

\* the text has been built for a domain other than the reference one
C11_Witness == conftext /= << >> /\ probe = "test.example"


\* create stands at line 123 with neither branch of the gather yet run
GatherStart ==
    op[Site] = "create" /\ pc[Site] = "gather" /\ branches[Site] = GenerationBranches(Site)

\* C12: inside create the whole of delete (the four unlinks and the cleanup
\* of the directory) is over before mkdir, and when the gather of the two
\* generation branches starts no artifact exists and the directory does.
C12_ResetBeforeGeneration ==
    /\ op[Site] = "create" /\ pc[Site] = "mkdir" =>
          /\ branches[Site] = {}
          /\ \A n \in Own : ~disk[n].present
          /\ dir => Present(disk) /= {}
    /\ GatherStart => dir /\ \A n \in Own : ~disk[n].present

\* create was called with all four artifacts on disk and is about to generate
C12_Witness == GatherStart /\ AllPresent(pre[Site].disk)

\* the sub-commands of the external tool, in the order create runs them
ToolOrder == <<"genrsa", "req", "x509">>

\* C13: a call runs the external tool at most three times, as genrsa, req
\* -new and x509 -req in this order and each at most once; a run starts only
\* after the one before it succeeded, req only with the configuration
\* written by this call, and a chmod is applied only after x509 succeeded.
C13_ToolOrder ==
    LET log == cmdlog[Site]
        conf == disk[ArtifactName(Site, "conf")]
    IN  /\ Len(log) <= Len(ToolOrder)
        /\ \A i \in 1..Len(log) :
              /\ log[i].args[1] = "openssl"
              /\ log[i].args[2] = ToolOrder[i]
              /\ i > 1 => log[i - 1].ok
        /\ Len(log) >= 2 => log[2].args[3] = "-new" /\ conf.present /\ conf.fresh
        /\ Len(log) >= 3 => log[3].args[3] = "-req"
        /\ chlog[Site] /= << >> => Len(log) = 3 /\ log[3].ok

\* a create that ran all three tools and applied both permission changes
C13_Witness ==
    /\ EndedOk("create")
    /\ Len(cmdlog[Site]) = 3
    /\ Len(chlog[Site]) = 2


\* the gather branches of the handle's calls that are still running
Running(c) == branches[c] \cup { b \in orphans : b.owner = c }

\* C14: once create or delete has returned to its caller, by a value or by
\* an error, none of the branches it handed to a gather is still running.
C14_BranchesJoined == op[Site] = "none" => Running(Site) = {}


\* exists() has returned, and the call before it was a create that raised
ExistsAfterFailedCreate ==
    /\ Ended("exists")
    /\ prev[Site].op = "create"
    /\ prev[Site].status = "error"

\* C15 as claimed: exists() right after a create that ended with an error
\* in one of the steps after its reset (it had written a file by then)
\* returns FALSE.
C15_Original ==
    ExistsAfterFailedCreate /\ (\E n \in Own : disk[n].fresh) => ~ret[Site].value

\* what exists() returns on the disk as it is
ExistsNow == ExistsResult({ e \in Exts : disk[ArtifactName(Site, e)].present })

\* C15: after a create that ended with an error, exists() returns TRUE only
\* in two cases: the create ran all three tools and wrote all four artifacts
\* itself (it failed in the signing run or in a chmod), or it ran no tool
\* and the four artifacts are the older set (an unlink of its reset failed).
C15_FailedCreate ==
    /\ Ended("create") /\ ret[Site].status = "error" /\ orphans = {} /\ ExistsNow =>
          \/ Len(cmdlog[Site]) = 3 /\ \A n \in Own : disk[n].fresh
          \/ cmdlog[Site] = << >> /\ \A n \in Own : ~disk[n].fresh
    /\ ExistsAfterFailedCreate /\ ret[Site].value =>
          /\ AllPresent(disk)
          /\ (\A n \in Own : disk[n].fresh) \/ (\A n \in Own : ~disk[n].fresh)

\* exists() returned TRUE right after a create that raised
C15_Witness == ExistsAfterFailedCreate /\ ret[Site].value


\* C16: whatever a concurrent writer adds to the storage directory, and
\* whenever it does, no step of delete removes or alters an entry other
\* than the handle's four artifacts, and the directory is removed only
\* in a step that finds it without any entry.
C16_DeleteLeavesOthers ==
    [][ /\ procvars' /= procvars => \A n \in Entries \ Own : disk'[n] = disk[n]
        /\ dir /\ ~dir' => Present(disk) = {} /\ Present(disk') = {}
        /\ \A n \in Entries \ Own : disk[n].present => disk'[n] = disk[n] ]_vars

\* delete found the directory empty and, before its rmdir, a file was added
C16_Witness ==
    /\ op[Site] = "delete" /\ pc[Site] = "rmdir"
    /\ dir /\ Present(disk) /= {}

\* the files of the certificate that is being created
Theirs == Artifacts(Creator)

\* create has passed its ensure-directory step and has not yet returned
Generating ==
    /\ op[Creator] = "create"
    /\ pc[Creator] \in {"gather", "req", "srl_check", "x509", "chmod_crt", "chmod_key"}

\* C17 as claimed: with a delete of the first certificate running beside a
\* create of the second, the directory exists from create's mkdir to its
\* return, and create returns without error with all four artifacts.
C17_Original ==
    /\ Generating => dir
    /\ op[Creator] = "none" /\ ret[Creator].op = "create" =>
          /\ ret[Creator].status = "ok"
          /\ \A n \in Theirs : disk[n].present

\* C17: with a delete of the first certificate running beside a create of
\* the second, a file is never left without its directory, and a create
\* that returns without error has all four artifacts on disk; the delete
\* can remove the directory between create's mkdir and its first write, and
\* create then raises, leaving no certificate file.
C17_SharedRoot ==
    /\ Present(disk) /= {} => dir
    /\ op[Creator] = "none" /\ ret[Creator].op = "create" /\ ret[Creator].status = "ok" =>
          \A n \in Theirs : disk[n].present
    /\ op[Creator] = "none" /\ ret[Creator].op = "create" /\ ret[Creator].status = "error" =>
          ~ret[Creator].injected /\ ~disk[ArtifactName(Creator, "crt")].present

\* create returned without error while a delete of the other certificate
\* was under way
C17_Witness ==
    /\ op[Creator] = "none" /\ ret[Creator].op = "create" /\ ret[Creator].status = "ok"
    /\ op[Deleter] = "delete" /\ pc[Deleter] \in {"root_exists", "glob", "rmdir"}


\* the paths the core's own filesystem calls act on: the storage root
\* (mkdir, glob, rmdir) and the artifact paths (unlink, write, chmod)
CoreTargets ==
    {Resolve(RootPath)} \cup { Resolve(ArtifactPath(c, e)) : c \in Names, e \in Exts }

AuthorityPaths == { Resolve(AuthorityPath(k)) : k \in {"key", "pem", "srl"} }

\* the value that follows option o in an argument list
ArgOf(args, o) == args[(CHOOSE i \in 1..Len(args) : args[i] = o) + 1]

\* the step is the x509 run of the handle's create
SigningStep(c) == op[c] = "create" /\ pc[c] = "x509" /\ pc'[c] /= "x509"

\* C18: no path the core's own filesystem calls act on is a file of the
\* authority; the key and the root certificate never change; a step of a
\* call changes the serial file only as the x509 run that was given
\* -CAcreateserial, which creates it; the three paths reach the tool as the
\* values of -CA, -CAkey and -CAserial.
C18_AuthorityUntouched ==
    [][ /\ CoreTargets \cap AuthorityPaths = {}
        /\ ca'.key = ca.key /\ ca'.pem = ca.pem
        /\ ca' /= ca /\ procvars' /= procvars =>
              /\ SigningStep(Site)
              /\ ~ca.srl /\ ca'.srl
        /\ SigningStep(Site) =>
              LET run == cmdlog'[Site][Len(cmdlog'[Site])]
              IN  /\ ArgOf(run.args, "-CA") = Resolve(AuthorityPath("pem"))
                  /\ ArgOf(run.args, "-CAkey") = Resolve(AuthorityPath("key"))
                  /\ ArgOf(run.args, "-CAserial") = Resolve(AuthorityPath("srl"))
                  /\ ca' /= ca => \E i \in 1..Len(run.args) : run.args[i] = "-CAcreateserial"
      ]_vars

\* the signing run has just created the authority's serial file
C18_Witness ==
    /\ op[Site] = "create" /\ pc[Site] = "chmod_crt"
    /\ Len(cmdlog[Site]) = 3
    /\ ~cmdlog[Site][3].srl /\ ca.srl

====
